---- MODULE Spec2Model ----
(***************************************************************************)
(* State-machine model of PointerEffect (src/src/PointerEffect.ts): the    *)
(* 'hammer.input' handler that feeds a PointerSession, classifies the      *)
(* gesture as click or swipe, filters the samples into a sparse polyline   *)
(* and computes the tail normal, and the per-frame update() pass.          *)
(*                                                                         *)
(* Conventions                                                             *)
(*  - A nullable reference is a sequence of length 0 (null) or 1.          *)
(*  - A 2D vector is a pair <<x, y>> of integers.                          *)
(*  - A unit vector is represented exactly by the primitive integer vector *)
(*    that points the same way (<<3, 4>> stands for (0.6, 0.8)); <<0, 0>>  *)
(*    is the zero vector.  BABYLON.Vector2.normalize leaves a zero-length  *)
(*    vector unchanged.                                                    *)
(*  - Samples are drawn from Centers; a sample is accepted by the model    *)
(*    only when its Euclidean distance to the previous sample is an        *)
(*    integer, so that traveledDistance is computed exactly.               *)
(***************************************************************************)
EXTENDS Integers, Sequences, FiniteSets, TLC

\* ---------------------------------------------------------------- bounds
\* Largest number of samples one session may accumulate.
MaxSamples == 4

\* Largest number of samples per session in the specifications that
\* interleave the per-frame pass with the input events.
MaxFrameSamples == 2

\* Sample positions (source-surface pixels).
Centers == { <<0, 0>>, <<3, 0>>, <<5, 0>>, <<60, 0>>, <<65, 0>>, <<0, 80>> }

\* ------------------------------------------------------ program constants
MIN_SWIPE_THRESHOLD == 10
MIN_SWIPE_SEG == 50

VARIABLES
  currentSession,   \* _currentSession : null or a PointerSession
  isClick,          \* _isClick
  filteredPoints,   \* _filteredPoints
  debugIsDirty,     \* _debugIsDirty
  line,             \* _line : null or the number of vertices of the mesh
  babylonInited,    \* _babylon.isInited
  hasDebugCanvas,   \* _debugCanvas is present
  thrown,           \* the handler raised a TypeError
  prior,            \* history: what the latest event found ("init" before
                    \* any event): "none", "active" or "ended" session
  pending           \* history: an event was handled and no redraw has
                    \* followed it yet

vars == << currentSession, isClick, filteredPoints, debugIsDirty, line,
           babylonInited, hasDebugCanvas, thrown, prior, pending >>

\* ---------------------------------------------------------------- helpers
Null == << >>
Ref(v) == << v >>
Deref(r) == r[1]

Abs(n) == IF n < 0 THEN -n ELSE n

RECURSIVE Gcd(_, _)
Gcd(a, b) == IF b = 0 THEN a ELSE Gcd(b, a % b)

Last(s) == s[Len(s)]

\* Squared Euclidean length of the vector from p to q.
DistSq(p, q) == (q[1] - p[1]) * (q[1] - p[1]) + (q[2] - p[2]) * (q[2] - p[2])

\* Candidates for the length of the vector from p to q: it is at least the
\* larger and at most the sum of the two coordinate differences.
Lengths(p, q) ==
  LET dx == Abs(q[1] - p[1])
      dy == Abs(q[2] - p[2])
  IN  (IF dx > dy THEN dx ELSE dy)..(dx + dy)

\* The distance from p to q is an integer.
ExactDistance(p, q) == \E r \in Lengths(p, q) : r * r = DistSq(p, q)

\* Euclidean distance from p to q (defined when ExactDistance(p, q)).
Distance(p, q) == CHOOSE r \in Lengths(p, q) : r * r = DistSq(p, q)

\* BABYLON.Vector2.normalize: unit vector along v, v itself when |v| = 0.
Normalize(v) ==
  IF v[1] = 0 /\ v[2] = 0
    THEN v
    ELSE LET g == Gcd(Abs(v[1]), Abs(v[2])) IN << v[1] \div g, v[2] \div g >>

\* ------------------------------------------------------------ input events
\* Hammer delivers one event type per event: isFirst and isFinal exclude
\* each other.
Events ==
  { [center |-> c, isFirst |-> k = "first", isFinal |-> k = "final"] :
      c \in Centers, k \in {"first", "move", "final"} }

\* ------------------------------------------------------------ PointerSession
NewPointerSession ==
  [inputData |-> << >>, traveledDistance |-> 0, isEnded |-> FALSE]

addInputPoint(s, e) ==
  IF s.isEnded
    THEN s
    ELSE [inputData |-> Append(s.inputData, e),
          traveledDistance |->
            IF s.inputData = << >>
              THEN 0
              ELSE s.traveledDistance
                     + Distance(Last(s.inputData).center, e.center),
          isEnded |-> e.isFinal]


\* ------------------------------------------------------------ PointerEffect
\* Variant: the previous geometry is kept when a session starts.
onSessionStart_KeepPoints ==
  [isClick |-> TRUE, filteredPoints |-> filteredPoints]

\* The runtime data _onSessionStart resets.
onSessionStart == [isClick |-> TRUE, filteredPoints |-> << >>]

\* Variant: the classification is recomputed from the latest step alone.
ClassifyClick_PerStep(click, s) ==
  LET n == Len(s.inputData)
  IN  IF n >= 2
        THEN Distance(s.inputData[n - 1].center, s.inputData[n].center)
               <= MIN_SWIPE_THRESHOLD
        ELSE click

\* Click or swipe: the one-way test at the head of _onSessionUpdate.
ClassifyClick(click, s) ==
  IF s.traveledDistance > MIN_SWIPE_THRESHOLD THEN FALSE ELSE click

\* Variant: the candidate is not flagged as the end.
Candidate_NotEnd(s) ==
  LET currentInput == Last(s.inputData)
  IN  [x |-> currentInput.center[1],
       y |-> currentInput.center[2],
       traveledDistance |-> s.traveledDistance,
       isStart |-> FALSE,
       isEnd |-> FALSE,
       normal |-> <<0, 0>>]

\* The candidate point built from the newest sample of the session.
Candidate(s) ==
  LET currentInput == Last(s.inputData)
  IN  [x |-> currentInput.center[1],
       y |-> currentInput.center[2],
       traveledDistance |-> s.traveledDistance,
       isStart |-> FALSE,
       isEnd |-> TRUE,
       normal |-> <<0, 0>>]

\* lastDeterminedPoint: the tail when the tail is the anchor, else the
\* element before the tail; null/undefined when the tail is not flagged
\* isEnd or has no predecessor.
LastDeterminedPoint(fps) ==
  LET lastFilteredPoint == Last(fps)
  IN  IF lastFilteredPoint.isEnd
        THEN IF lastFilteredPoint.isStart
               THEN Ref(lastFilteredPoint)
               ELSE IF Len(fps) >= 2 THEN Ref(fps[Len(fps) - 1]) ELSE Null
        ELSE Null

\* Reading lastDeterminedPoint.traveledDistance raises a TypeError.
Throws(fps) == fps # << >> /\ LastDeterminedPoint(fps) = Null

\* Variant: the anchor is treated like any other tail.
LocksIn_NoAnchorClause(fps, filteredPoint) ==
  filteredPoint.traveledDistance
    - Deref(LastDeterminedPoint(fps)).traveledDistance > MIN_SWIPE_SEG

\* Variant: the segment test uses the click threshold.
LocksIn_ClickThreshold(fps, filteredPoint) ==
  \/ filteredPoint.traveledDistance
       - Deref(LastDeterminedPoint(fps)).traveledDistance
         > MIN_SWIPE_THRESHOLD
  \/ Last(fps).isStart

\* Variant: the delta is measured from the tail itself.
LocksIn_FromTail(fps, filteredPoint) ==
  \/ filteredPoint.traveledDistance - Last(fps).traveledDistance
       > MIN_SWIPE_SEG
  \/ Last(fps).isStart

\* The candidate is appended (and the old tail committed) rather than
\* written over the tail.
LocksIn(fps, filteredPoint) ==
  LET lastFilteredPoint == Last(fps)
      lastDeterminedPoint == Deref(LastDeterminedPoint(fps))
      distanceDelta == filteredPoint.traveledDistance
                         - lastDeterminedPoint.traveledDistance
  IN  distanceDelta > MIN_SWIPE_SEG \/ lastFilteredPoint.isStart

\* Variant: the old tail keeps its isEnd flag.
PushPoint_KeepEnd(fps, filteredPoint) == Append(fps, filteredPoint)

\* Append filteredPoint after committing the tail.
PushPoint(fps, filteredPoint) ==
  Append([fps EXCEPT ![Len(fps)].isEnd = FALSE], filteredPoint)

\* Variant: a candidate that does not lock in is dropped instead of
\* written over the tail.
FilterPoints_KeepsTail(fps, filteredPoint) ==
  IF fps = << >>
    THEN << [filteredPoint EXCEPT !.isStart = TRUE] >>
    ELSE IF LocksIn(fps, filteredPoint)
           THEN PushPoint(fps, filteredPoint)
           ELSE fps

\* Filter points: the start point, then lock-in or overwrite of the tail.
FilterPoints(fps, filteredPoint) ==
  IF fps = << >>
    THEN << [filteredPoint EXCEPT !.isStart = TRUE] >>
    ELSE IF LocksIn(fps, filteredPoint)
           THEN PushPoint(fps, filteredPoint)
           ELSE [fps EXCEPT ![Len(fps)] = filteredPoint]

\* Variant: the normal is computed for clicks as well.
MakeNormals_Ungated(fps, click) ==
  IF Len(fps) >= 2
    THEN LET currentFP == fps[Len(fps)]
             lastFP == fps[Len(fps) - 1]
             currentV == Normalize(<< currentFP.x - lastFP.x,
                                      currentFP.y - lastFP.y >>)
         IN  [fps EXCEPT ![Len(fps)].normal =
                Normalize(<< -currentV[2], currentV[1] >>)]
    ELSE fps

\* Variant: the normal of the vertex before the tail is corrected too.
MakeNormals_CorrectsLast(fps, click) ==
  IF ~click /\ Len(fps) >= 2
    THEN LET currentFP == fps[Len(fps)]
             lastFP == fps[Len(fps) - 1]
             currentV == Normalize(<< currentFP.x - lastFP.x,
                                      currentFP.y - lastFP.y >>)
             n == Normalize(<< -currentV[2], currentV[1] >>)
         IN  [fps EXCEPT ![Len(fps)].normal = n, ![Len(fps) - 1].normal = n]
    ELSE fps

\* Variant: the perpendicular is taken clockwise.
MakeNormals_Clockwise(fps, click) ==
  IF ~click /\ Len(fps) >= 2
    THEN LET currentFP == fps[Len(fps)]
             lastFP == fps[Len(fps) - 1]
             currentV == Normalize(<< currentFP.x - lastFP.x,
                                      currentFP.y - lastFP.y >>)
         IN  [fps EXCEPT ![Len(fps)].normal =
                Normalize(<< currentV[2], -currentV[1] >>)]
    ELSE fps

\* Make normals for swipe: only the tail's normal is written.
MakeNormals(fps, click) ==
  IF ~click /\ Len(fps) >= 2
    THEN LET currentFP == fps[Len(fps)]
             lastFP == fps[Len(fps) - 1]
             currentV == Normalize(<< currentFP.x - lastFP.x,
                                      currentFP.y - lastFP.y >>)
         IN  [fps EXCEPT ![Len(fps)].normal =
                Normalize(<< -currentV[2], currentV[1] >>)]
    ELSE fps

\* _onSessionUpdate on runtime data r = [isClick, filteredPoints].
onSessionUpdate(r, s) ==
  LET click == ClassifyClick(r.isClick, s)
  IN  IF Throws(r.filteredPoints)
        THEN [isClick |-> click, filteredPoints |-> r.filteredPoints,
              thrown |-> TRUE]
        ELSE [isClick |-> click,
              filteredPoints |->
                MakeNormals(FilterPoints(r.filteredPoints, Candidate(s)),
                            click),
              thrown |-> FALSE]

\* The session the handler works on: a new one when none is current or the
\* event is a first event.
SessionFor(e) ==
  IF currentSession = Null \/ e.isFirst
    THEN NewPointerSession
    ELSE Deref(currentSession)

\* Model bound on the inputs: at most MaxSamples samples per session, and
\* the step from the previous sample has an integer length.
Admissible(e) ==
  LET s == SessionFor(e)
  IN  IF s.isEnded \/ s.inputData = << >>
        THEN TRUE
        ELSE /\ Len(s.inputData) < MaxSamples
             /\ ExactDistance(Last(s.inputData).center, e.center)

\* The runtime data _onSessionUpdate starts from.
StartData(e) ==
  IF e.isFirst
    THEN onSessionStart
    ELSE [isClick |-> isClick, filteredPoints |-> filteredPoints]

\* What an arriving event finds.
SessionState ==
  IF currentSession = Null
    THEN "none"
    ELSE IF Deref(currentSession).isEnded THEN "ended" ELSE "active"

\* hammer.on('hammer.input', e => ...)
HammerInput(e) ==
  /\ Admissible(e)
  /\ LET s == addInputPoint(SessionFor(e), e)
         r == onSessionUpdate(StartData(e), s)
     IN  /\ currentSession' = Ref(s)
         /\ isClick' = r.isClick
         /\ filteredPoints' = r.filteredPoints
         /\ thrown' = (thrown \/ r.thrown)
         /\ debugIsDirty' = IF r.thrown THEN debugIsDirty ELSE TRUE
  /\ prior' = SessionState
  /\ pending' = TRUE
  /\ UNCHANGED << line, babylonInited, hasDebugCanvas >>

\* updateDebugCanvas(): clears the dirty flag when a debug canvas exists.
updateDebugCanvas(dirty) ==
  IF ~dirty \/ ~hasDebugCanvas THEN dirty ELSE FALSE

\* Variant: the pass recomputes the normal of the tail.
update_RecomputesNormals ==
  /\ IF ~babylonInited \/ ~debugIsDirty
       THEN UNCHANGED << line, debugIsDirty, pending, filteredPoints >>
       ELSE /\ line' = Ref(IF currentSession # Null
                             THEN Len(filteredPoints) ELSE 0)
            /\ debugIsDirty' = updateDebugCanvas(debugIsDirty)
            /\ pending' = FALSE
            /\ filteredPoints' = MakeNormals_Ungated(filteredPoints, FALSE)
  /\ UNCHANGED << currentSession, isClick, babylonInited,
                  hasDebugCanvas, thrown, prior >>

\* Variant: a pass that finds the renderer not initialised drops the flag.
update_DropsFlag ==
  /\ IF ~debugIsDirty
       THEN UNCHANGED << line, debugIsDirty, pending >>
       ELSE IF ~babylonInited
              THEN debugIsDirty' = FALSE /\ UNCHANGED << line, pending >>
              ELSE /\ line' = Ref(IF currentSession # Null
                                    THEN Len(filteredPoints) ELSE 0)
                   /\ debugIsDirty' = updateDebugCanvas(debugIsDirty)
                   /\ pending' = FALSE
  /\ UNCHANGED << currentSession, isClick, filteredPoints, babylonInited,
                  hasDebugCanvas, thrown, prior >>

\* update(): the per-frame pass.
update ==
  /\ IF ~babylonInited \/ ~debugIsDirty
       THEN UNCHANGED << line, debugIsDirty, pending >>
       ELSE /\ line' = Ref(IF currentSession # Null
                             THEN Len(filteredPoints) ELSE 0)
            /\ debugIsDirty' = updateDebugCanvas(debugIsDirty)
            /\ pending' = FALSE
  /\ UNCHANGED << currentSession, isClick, filteredPoints, babylonInited,
                  hasDebugCanvas, thrown, prior >>

\* The scene controller finishes its initialisation.
BabylonInit ==
  /\ ~babylonInited
  /\ babylonInited' = TRUE
  /\ UNCHANGED << currentSession, isClick, filteredPoints, debugIsDirty,
                  line, hasDebugCanvas, thrown, prior, pending >>

Init ==
  /\ currentSession = Null
  /\ isClick = FALSE
  /\ filteredPoints = << >>
  /\ debugIsDirty = FALSE
  /\ line = Null
  /\ babylonInited = FALSE
  /\ hasDebugCanvas \in BOOLEAN
  /\ thrown = FALSE
  /\ prior = "init"
  /\ pending = FALSE

\* Input handling alone.
InputNext == \E e \in Events : HammerInput(e)

Next ==
  \/ InputNext
  \/ update
  \/ BabylonInit

Spec == Init /\ [][Next]_vars

\* Input events interleaved with the per-frame pass, with sessions of at
\* most MaxFrameSamples samples.
FrameInput ==
  \E e \in Events :
    /\ Len(SessionFor(e).inputData) < MaxFrameSamples
    /\ HammerInput(e)

FrameNext ==
  \/ FrameInput
  \/ update
  \/ BabylonInit

SpecFrame == Init /\ [][FrameNext]_vars

\* The per-frame pass keeps being called and the scene controller finishes
\* its initialisation.
SpecFrameFair ==
  Init /\ [][FrameNext]_vars /\ WF_vars(update) /\ WF_vars(BabylonInit)

\* The behaviours of the input handler.  update and BabylonInit leave
\* currentSession, isClick and filteredPoints unchanged, so every property of
\* these three variables that holds of SpecInput holds of Spec.
SpecInput == Init /\ [][InputNext]_vars


\* ------------------------------------------------------------- vocabulary
HasSession == currentSession # Null
Cur == Deref(currentSession)
NumPoints == Len(filteredPoints)
ZeroVector == <<0, 0>>

\* Positions of the filtered points, in order.
Positions == [i \in 1..NumPoints |-> << filteredPoints[i].x, filteredPoints[i].y >>]

\* Centers of the samples of session s, in order.
SampleCenters(s) == [i \in 1..Len(s.inputData) |-> s.inputData[i].center]

\* The current session was started by a first event.
StartedByFirst == HasSession /\ Cur.inputData[1].isFirst

\* The latest event was the first event of a session: the state is the one
\* right after it.
AfterFirstEvent ==
  HasSession /\ Len(Cur.inputData) = 1 /\ Cur.inputData[1].isFirst

\* The latest event created the current session.
JustCreated ==
  HasSession /\ Len(Cur.inputData) = 1
    /\ (Cur.inputData[1].isFirst \/ prior = "none")

\* The latest event was the final event of the session (it found the
\* session active and ended it).
AfterFinalEvent == HasSession /\ Cur.isEnded /\ prior = "active"

AllNormalsZero == \A i \in 1..NumPoints : filteredPoints[i].normal = ZeroVector

\* The step appends to the current session a sample that is not its first.
AppendsLaterSample ==
  /\ HasSession
  /\ currentSession' # Null
  /\ Len(Deref(currentSession').inputData) = Len(Cur.inputData) + 1

\* The step overwrites the tail of the filtered sequence in place.
OverwritesTail ==
  /\ Len(filteredPoints') = NumPoints
  /\ \A i \in 1..(NumPoints - 1) : filteredPoints'[i] = filteredPoints[i]

\* The step commits the tail and appends one point.
AppendsPoint ==
  /\ Len(filteredPoints') = NumPoints + 1
  /\ \A i \in 1..(NumPoints - 1) : filteredPoints'[i] = filteredPoints[i]
  /\ filteredPoints'[NumPoints] = [filteredPoints[NumPoints] EXCEPT !.isEnd = FALSE]

\* The most recently locked-in vertex: the last one whose isEnd flag has
\* been cleared, the anchor while nothing has been locked in.
LastCommitted ==
  IF \E i \in 1..NumPoints : ~filteredPoints[i].isEnd
    THEN LET i == CHOOSE j \in 1..NumPoints :
                    /\ ~filteredPoints[j].isEnd
                    /\ \A k \in (j + 1)..NumPoints : filteredPoints[k].isEnd
         IN  filteredPoints[i]
    ELSE filteredPoints[1]

\* ----------------------------------------------------------------- claims

\* C1: after every handled input event the filtered-point sequence is
\* non-empty, exactly one element has isStart and it is the first, and
\* exactly one element has isEnd and it is the last.
C1_EndsFlagged ==
  prior # "init" =>
    /\ NumPoints >= 1
    /\ \A i \in 1..NumPoints :
         /\ filteredPoints[i].isStart <=> (i = 1)
         /\ filteredPoints[i].isEnd <=> (i = NumPoints)

\* A session that locked in vertices, overwrote a tail and has ended.
C1_Witness ==
  /\ AfterFinalEvent
  /\ NumPoints >= 3
  /\ NumPoints < Len(Cur.inputData)

\* The events (0,0)[first], (5,0), (60,0), (65,0)[final] have just been
\* handled.
C2_Scenario ==
  /\ AfterFinalEvent
  /\ StartedByFirst
  /\ SampleCenters(Cur) = << <<0, 0>>, <<5, 0>>, <<60, 0>>, <<65, 0>> >>
  /\ ~Cur.inputData[2].isFinal /\ ~Cur.inputData[3].isFinal

\* C2: after (0,0)[first], (5,0), (60,0), (65,0)[final] the filtered
\* sequence is exactly [(0,0) isStart, (60,0), (65,0) isEnd], click is false
\* and (5,0) is not retained as a vertex.
C2_ThreePoints ==
  C2_Scenario =>
    /\ Positions = << <<0, 0>>, <<60, 0>>, <<65, 0>> >>
    /\ filteredPoints[1].isStart
    /\ filteredPoints[3].isEnd
    /\ ~isClick

\* The events (0,0)[first], (3,0)[final] have just been handled.
C3_Scenario ==
  /\ AfterFinalEvent
  /\ StartedByFirst
  /\ SampleCenters(Cur) = << <<0, 0>>, <<3, 0>> >>

\* C3 as stated: after (0,0)[first], (3,0)[final] click is still true, the
\* filtered sequence is the single anchor (0,0) carrying isStart and isEnd,
\* and every normal is the zero vector.
C3_SingleAnchor ==
  C3_Scenario =>
    /\ isClick
    /\ NumPoints = 1
    /\ Positions = << <<0, 0>> >>
    /\ filteredPoints[1].isStart /\ filteredPoints[1].isEnd
    /\ AllNormalsZero

\* C3 as amended: after (0,0)[first], (3,0)[final] click is still true, the
\* filtered sequence is the anchor (0,0) with isStart followed by the tail
\* (3,0) with isEnd (traveled distance 3), and every normal is the zero
\* vector.
C3_AnchorAndTail ==
  C3_Scenario =>
    /\ isClick
    /\ filteredPoints =
         << [x |-> 0, y |-> 0, traveledDistance |-> 0, isStart |-> TRUE,
             isEnd |-> FALSE, normal |-> ZeroVector],
            [x |-> 3, y |-> 0, traveledDistance |-> 3, isStart |-> FALSE,
             isEnd |-> TRUE, normal |-> ZeroVector] >>

C3_Witness == C3_Scenario /\ isClick /\ NumPoints = 2

\* C4 as stated: for every sample after the first of a session (one that a
\* first event started), with delta
\* the candidate's traveled distance minus that of the most recently
\* locked-in vertex, delta > 50 grows the sequence by exactly one and
\* delta <= 50 overwrites the tail and leaves the length unchanged.
C4_DeltaAloneDecides ==
  [][ (StartedByFirst /\ AppendsLaterSample) =>
        LET delta == Deref(currentSession').traveledDistance
                       - LastCommitted.traveledDistance
        IN  /\ delta > MIN_SWIPE_SEG => Len(filteredPoints') = NumPoints + 1
            /\ delta <= MIN_SWIPE_SEG => OverwritesTail ]_vars

\* C4 as amended: for every sample after the first of a session, if
\* delta > 50 or the sequence holds only the anchor, the tail is committed
\* and the sequence grows by exactly one; otherwise (delta <= 50 and a
\* vertex beyond the anchor exists) the tail is overwritten in place and the
\* length is unchanged.
C4_DeltaOrAnchorDecides ==
  [][ AppendsLaterSample =>
        LET delta == Deref(currentSession').traveledDistance
                       - LastCommitted.traveledDistance
        IN  IF delta > MIN_SWIPE_SEG \/ NumPoints = 1
              THEN AppendsPoint
              ELSE OverwritesTail ]_vars

\* A session in which a sample within 50 of the last locked-in vertex
\* overwrote the tail and a later one beyond 50 locked a vertex in.
C4_Witness ==
  /\ HasSession
  /\ prior = "active"
  /\ NumPoints >= 3
  /\ NumPoints < Len(Cur.inputData)
  /\ filteredPoints[NumPoints].traveledDistance
       - filteredPoints[NumPoints - 1].traveledDistance <= MIN_SWIPE_SEG

\* C5: any two consecutive committed (non-tail) vertices have traveled
\* distances that differ by at least the segment threshold (stated for
\* sessions that a first event started).
C5_CommittedSpacing ==
  StartedByFirst =>
  \A i \in 1..(NumPoints - 2) :
    filteredPoints[i + 1].traveledDistance
      - filteredPoints[i].traveledDistance >= MIN_SWIPE_SEG

\* C6: once a session (that a first event started) has ended, no event
\* other than a first event changes the filtered-point sequence or the
\* click flag.
C6_FrozenAfterEnd ==
  [][ (StartedByFirst /\ Cur.isEnded /\ currentSession' = currentSession) =>
        (filteredPoints' = filteredPoints /\ isClick' = isClick) ]_vars

\* C7: within a session click is false after every event handled with
\* cumulative traveled distance above 10, it stays false for the rest of the
\* session, and it becomes true again only by a first event.
C7_ClickOneWay ==
  [][ /\ (currentSession' # Null
            /\ Deref(currentSession').traveledDistance > MIN_SWIPE_THRESHOLD)
          => ~isClick'
      /\ (~isClick /\ isClick')
          => /\ currentSession' # Null
             /\ Len(Deref(currentSession').inputData) = 1
             /\ Deref(currentSession').inputData[1].isFirst ]_vars

\* A swipe whose latest sample did not move.
C7_Witness ==
  /\ StartedByFirst
  /\ prior = "active"
  /\ Cur.traveledDistance > MIN_SWIPE_THRESHOLD
  /\ ~isClick
  /\ LET n == Len(Cur.inputData)
     IN  n >= 3 /\ Cur.inputData[n].center = Cur.inputData[n - 1].center

\* C8: in a session started by a first event whose traveled distance has not
\* exceeded 10, click is true and every filtered point's normal is zero.
C8_ClickHasNoNormals ==
  (StartedByFirst /\ Cur.traveledDistance <= MIN_SWIPE_THRESHOLD) =>
    (isClick /\ AllNormalsZero)

\* An ended click that moved, with two distinct filtered points.
C8_Witness ==
  /\ StartedByFirst
  /\ AfterFinalEvent
  /\ Cur.traveledDistance > 0
  /\ Cur.traveledDistance <= MIN_SWIPE_THRESHOLD
  /\ NumPoints >= 2
  /\ Positions[NumPoints] # Positions[NumPoints - 1]
  /\ isClick

\* C9: every newly created session starts with click = true, whether a first
\* event created it or a non-first event that found no session.
C9_NewSessionIsClick == JustCreated => isClick

\* C10: right after a first event the filtered sequence is exactly one point
\* at the event's center with isStart, isEnd, traveled distance 0 and zero
\* normal, and click is true, whatever the state before.
C10_FirstEventResets ==
  AfterFirstEvent =>
    /\ isClick
    /\ filteredPoints =
         << [x |-> Cur.inputData[1].center[1],
             y |-> Cur.inputData[1].center[2],
             traveledDistance |-> 0,
             isStart |-> TRUE,
             isEnd |-> TRUE,
             normal |-> ZeroVector] >>

\* A first event that arrived after a session had ended.
C10_Witness == AfterFirstEvent /\ prior = "ended" /\ NumPoints = 1

\* C11: the anchor is never replaced or removed: after every event its
\* position is the position of the session's first sample and its isStart
\* flag is true.
C11_AnchorStays ==
  prior # "init" =>
    /\ NumPoints >= 1
    /\ Positions[1] = Cur.inputData[1].center
    /\ filteredPoints[1].isStart

\* A session whose later samples moved away from the first one, overwrote a
\* tail and locked vertices in.
C11_Witness ==
  /\ StartedByFirst
  /\ prior = "active"
  /\ Len(Cur.inputData) >= 4
  /\ NumPoints >= 3
  /\ \A i \in 2..Len(Cur.inputData) :
       Cur.inputData[i].center # Cur.inputData[1].center

\* C12: after every handled event the tail of the filtered sequence has the
\* position of the most recently appended raw sample and the session's
\* current cumulative traveled distance, whether it was appended or written
\* over the provisional tail.
C12_TailIsLatestSample ==
  prior # "init" =>
    /\ NumPoints >= 1
    /\ Positions[NumPoints] = Last(Cur.inputData).center
    /\ filteredPoints[NumPoints].traveledDistance = Cur.traveledDistance

\* The latest sample moved and was written over the provisional tail.
C12_Witness ==
  /\ HasSession
  /\ prior = "active"
  /\ NumPoints >= 2
  /\ NumPoints < Len(Cur.inputData)
  /\ LET n == Len(Cur.inputData)
     IN  Cur.inputData[n].center # Cur.inputData[n - 1].center

\* The step does not start a session: a session is current and the state
\* reached is not the one right after a first event (a first event is never
\* final, so the event after it always appends a second sample).
SameSessionStep == HasSession /\ ~AfterFirstEvent'

\* C16: for every sample after the first of a session the candidate is
\* appended (tail's isEnd cleared, length + 1) exactly when its traveled
\* distance exceeds that of the last determined point (the vertex before the
\* tail, the anchor when the tail is the anchor) by more than 50 or the tail
\* is the anchor; otherwise it replaces the tail in place.  The length
\* changes by 0 or +1 per event of a session and never decreases.
C16_DecisionRule ==
  [][ /\ AppendsLaterSample =>
           LET tail == filteredPoints[NumPoints]
               lastDetermined ==
                 IF tail.isStart THEN tail ELSE filteredPoints[NumPoints - 1]
               candidateDistance == Deref(currentSession').traveledDistance
               appended == Len(filteredPoints') = NumPoints + 1
           IN  /\ appended <=>
                    \/ candidateDistance - lastDetermined.traveledDistance
                         > MIN_SWIPE_SEG
                    \/ tail.isStart
               /\ appended => AppendsPoint
               /\ ~appended => OverwritesTail
      /\ SameSessionStep =>
           Len(filteredPoints') \in {NumPoints, NumPoints + 1} ]_vars

\* An ended session of four samples of which one was written over the tail
\* and the others were appended.
C16_Witness ==
  /\ StartedByFirst
  /\ AfterFinalEvent
  /\ Len(Cur.inputData) = 4
  /\ NumPoints = 3

\* C17: a committed (non-tail) vertex is immutable: no later event of the
\* same session changes its position, traveled distance, isStart flag or
\* normal; an event writes the normal of the tail only.
C17_CommittedImmutable ==
  [][ SameSessionStep =>
        \A i \in 1..NumPoints :
          /\ Len(filteredPoints') >= i
          /\ (i < NumPoints \/ Len(filteredPoints') > NumPoints) =>
               /\ filteredPoints'[i].x = filteredPoints[i].x
               /\ filteredPoints'[i].y = filteredPoints[i].y
               /\ filteredPoints'[i].traveledDistance
                    = filteredPoints[i].traveledDistance
               /\ filteredPoints'[i].isStart = filteredPoints[i].isStart
               /\ filteredPoints'[i].normal = filteredPoints[i].normal
               /\ ~filteredPoints'[i].isEnd ]_vars

\* A swipe that turned: the committed vertex keeps the normal of its own
\* segment while the tail has the normal of the next one.
C17_Witness ==
  /\ StartedByFirst
  /\ prior = "active"
  /\ NumPoints >= 3
  /\ filteredPoints[NumPoints - 1].normal # ZeroVector
  /\ filteredPoints[NumPoints].normal # ZeroVector
  /\ filteredPoints[NumPoints].normal # filteredPoints[NumPoints - 1].normal

\* v is the unit vector (in the representation of this module) obtained by
\* turning the direction from p to q a quarter turn counter-clockwise:
\* (-dir.y, dir.x).  The unit direction of an integer vector (dx, dy) is
\* (dx, dy) / g for the largest g dividing both, taken as a direction.
IsCcwPerpendicular(v, p, q) ==
  LET dx == q[1] - p[1]
      dy == q[2] - p[2]
  IN  \E g \in 1..(Abs(dx) + Abs(dy)) :
        /\ dx % g = 0 /\ dy % g = 0
        /\ \A h \in (g + 1)..(Abs(dx) + Abs(dy)) : ~(dx % h = 0 /\ dy % h = 0)
        /\ v = << -(dy \div g), dx \div g >>

\* C18: after every handled event, with click false and at least two points
\* the tail's normal is the counter-clockwise perpendicular of the unit
\* direction from the previous vertex to the tail when the two positions
\* differ (rightward travel gives (0, 1)) and the zero vector when they
\* coincide; with click true or a single point the tail's normal is zero.
C18_TailNormal ==
  prior # "init" =>
    LET tail == filteredPoints[NumPoints]
    IN  IF ~isClick /\ NumPoints >= 2
          THEN LET p == Positions[NumPoints - 1]
                   q == Positions[NumPoints]
               IN  /\ p = q => tail.normal = ZeroVector
                   /\ p # q => IsCcwPerpendicular(tail.normal, p, q)
                   /\ (q[2] = p[2] /\ q[1] > p[1]) => tail.normal = <<0, 1>>
          ELSE tail.normal = ZeroVector

\* An event after the end appended a vertex that coincides with the previous
\* one, whose own normal is oblique.
C18_Witness ==
  /\ ~isClick
  /\ prior = "ended"
  /\ NumPoints >= 3
  /\ Positions[NumPoints] = Positions[NumPoints - 1]
  /\ filteredPoints[NumPoints].normal = ZeroVector
  /\ filteredPoints[NumPoints - 1].normal[1] # 0
  /\ filteredPoints[NumPoints - 1].normal[2] # 0

\* C19: the filter never dereferences an undefined lastDeterminedPoint: a
\* non-empty filtered sequence always has a tail with isEnd, with an element
\* before it unless it is the anchor, and no event makes the handler throw.
C19_LastDeterminedDefined ==
  /\ ~thrown
  /\ NumPoints >= 1 =>
       /\ filteredPoints[NumPoints].isEnd
       /\ ~filteredPoints[NumPoints].isStart => NumPoints >= 2

\* Events were handled after the end of a session whose tail is not the
\* anchor: lastDeterminedPoint was the vertex before the tail.
C19_Witness ==
  /\ ~thrown
  /\ prior = "ended"
  /\ HasSession /\ Cur.isEnded
  /\ NumPoints >= 3

\* C20: the traveled distances along the filtered sequence are
\* non-decreasing, two vertices two positions apart are more than 50 apart,
\* and the number of points is at most 2 + 2 * floor(distance / 50).
C20_Spacing ==
  /\ \A i \in 1..(NumPoints - 1) :
       filteredPoints[i].traveledDistance
         <= filteredPoints[i + 1].traveledDistance
  /\ \A i \in 1..(NumPoints - 2) :
       filteredPoints[i + 2].traveledDistance
         - filteredPoints[i].traveledDistance > MIN_SWIPE_SEG
  /\ HasSession =>
       NumPoints <= 2 + 2 * (Cur.traveledDistance \div MIN_SWIPE_SEG)

\* Four points within a traveled distance below 100: the bound is met.
C20_Witness ==
  /\ StartedByFirst
  /\ NumPoints = 4
  /\ Cur.traveledDistance < 2 * MIN_SWIPE_SEG
  /\ filteredPoints[2].traveledDistance - filteredPoints[1].traveledDistance
       < MIN_SWIPE_SEG

\* The step is a per-frame pass that redrew: it consumed the dirty flag,
\* replaced the line mesh or drew the latest event.
RedrawStep ==
  \/ pending /\ ~pending'
  \/ line' # line
  \/ debugIsDirty /\ ~debugIsDirty'

\* C13: whenever update() redraws, the dirty flag is cleared by the time it
\* returns, in every configuration, the one without debug canvas included.
C13_RedrawClearsFlag ==
  [][ RedrawStep => ~debugIsDirty' ]_vars

\* C14: a per-frame pass leaves the filtered-point sequence (normals
\* included), the click flag and the current session unchanged.
C14_UpdateReadsOnly ==
  [][ RedrawStep =>
        /\ filteredPoints' = filteredPoints
        /\ isClick' = isClick
        /\ currentSession' = currentSession ]_vars

\* A click of two points has been drawn.
C14_Witness ==
  /\ ~pending
  /\ line = Ref(NumPoints)
  /\ NumPoints >= 2
  /\ isClick
  /\ Positions[2] # Positions[1]

\* C15: every handled event sets the dirty flag, the flag stays set until a
\* pass redraws (a pass that finds the renderer not initialised leaves it
\* set), and every event is eventually followed by a redraw.
C15_EventuallyRedrawn ==
  /\ [](pending => debugIsDirty)
  /\ pending ~> ~pending

\* An event has been handled and then drawn by a pass.
C15_Witness ==
  /\ ~pending
  /\ babylonInited
  /\ line # Null
  /\ prior # "init"
  /\ NumPoints >= 2

====
